---- MODULE Spec2Model ----
(***************************************************************************)
(* Stationary distribution of the eight-state literal automaton.           *)
(*                                                                         *)
(* src/app.py holds the server-side formula (stationary_distribution) and  *)
(* the Dash callback update_visualisation; src/generate_static.py holds    *)
(* the client-side port (stationaryDistribution / updateVisualization)     *)
(* embedded in the generated page.                                         *)
(*                                                                         *)
(* Numbers.  The code computes in double precision.  The model computes in *)
(* exact rational arithmetic: a number is a pair <<n, d>> with d > 0 and   *)
(* gcd(n, d) = 1.  Rounding is therefore not modelled; what is modelled of *)
(* the float type is (a) 0 ** 0 = 1, (b) exact comparison with 0 and       *)
(* (c) the OverflowError that Python's float ** int raises when the result *)
(* leaves the float range (FloatMax, scaled down so that the numbers stay  *)
(* small).                                                                 *)
(***************************************************************************)
EXTENDS Integers, Sequences, FiniteSets, TLC

(***************************************************************************)
(* Bounds of the model.                                                    *)
(***************************************************************************)
\* probabilities are drawn from the grid 0/D, 1/D, ..., D/D
D == 2
\* s is drawn from SMin..MaxS (the slider reaches 25; s**7 has to stay a
\* small number)
MaxS == 3
\* largest magnitude a float holds (stands for sys.float_info.max)
FloatMax == 100000
\* an out-of-range s whose square exceeds FloatMax (stands for s = 1e200)
HugeS == 1000

\* slider-s: min=1.0
SMin == 1

(***************************************************************************)
(* Exact rational arithmetic standing for the float operations.            *)
(***************************************************************************)
Abs(x) == IF x < 0 THEN -x ELSE x

RECURSIVE GCD(_, _)
GCD(a, b) == IF b = 0 THEN a ELSE GCD(b, a % b)

\* the number n/d in lowest terms with a positive denominator
Rat(n, d) ==
    LET g == GCD(Abs(n), Abs(d))
        sg == IF d < 0 THEN -1 ELSE 1
    IN  <<(sg * n) \div g, (sg * d) \div g>>

Zero == <<0, 1>>
One == <<1, 1>>

\* x + y
RAdd(x, y) ==
    LET g == GCD(x[2], y[2])
        L == (x[2] \div g) * y[2]
    IN  Rat(x[1] * (L \div x[2]) + y[1] * (L \div y[2]), L)

\* x - y
RSub(x, y) == RAdd(x, <<-y[1], y[2]>>)

\* x * y
RMul(x, y) ==
    LET g1 == GCD(Abs(x[1]), y[2])
        g2 == GCD(Abs(y[1]), x[2])
    IN  Rat((x[1] \div g1) * (y[1] \div g2), (x[2] \div g2) * (y[2] \div g1))

\* 1.0 / x, for x # 0
RInv(x) == IF x[1] > 0 THEN <<x[2], x[1]>> ELSE <<-x[2], -x[1]>>

\* x <= y, by comparing integer parts and then the reciprocals of the
\* fractional parts (no cross product is formed)
RECURSIVE RLeq(_, _)
RLeq(x, y) ==
    LET fx == x[1] \div x[2]
        fy == y[1] \div y[2]
        rx == x[1] % x[2]
        ry == y[1] % y[2]
    IN  IF fx # fy THEN fx < fy
        ELSE IF rx = 0 THEN TRUE
        ELSE IF ry = 0 THEN FALSE
        ELSE RLeq(<<y[2], ry>>, <<x[2], rx>>)

\* x ** n for an integer n >= 0; x ** 0 = 1 for every x, 0 included
RECURSIVE RPow(_, _)
RPow(x, n) == IF n = 0 THEN One ELSE RMul(RPow(x, n - 1), x)

\* |x ** n| > FloatMax: float ** int raises OverflowError
RECURSIVE PowOverflows(_, _)
PowOverflows(x, n) ==
    IF n = 0 THEN FALSE
    ELSE IF PowOverflows(x, n - 1) THEN TRUE
    ELSE LET p == RMul(RPow(x, n - 1), x)
         IN  ~RLeq(<<Abs(p[1]), p[2]>>, <<FloatMax, 1>>)

\* sum(xs): left to right from 0
RECURSIVE SumTo(_, _)
SumTo(xs, k) == IF k = 0 THEN Zero ELSE RAdd(SumTo(xs, k - 1), xs[k])
sum(xs) == SumTo(xs, Len(xs))

(***************************************************************************)
(* src/app.py: AutomatonParameters and its derived properties.             *)
(***************************************************************************)
AutomatonParameters(sv, plyv, pyv, pnv) ==
    [s |-> sv, p_l_given_y |-> plyv, p_y |-> pyv, p_not_l_given_not_y |-> pnv]

\* variant: the operands of the subtraction exchanged
p_not_l_given_y_negated(params) == RSub(params.p_l_given_y, One)

\* variant: the complement of the wrong field
p_not_l_given_y_of_p_y(params) == RSub(One, params.p_y)

p_not_l_given_y(params) == RSub(One, params.p_l_given_y)

p_not_y(params) == RSub(One, params.p_y)

\* variant: the second product takes p_y for p_not_y
base_term_p_y_twice(params) ==
    RAdd(RMul(params.p_l_given_y, params.p_y),
         RMul(params.p_not_l_given_not_y, params.p_y))

base_term(params) ==
    RAdd(RMul(params.p_l_given_y, params.p_y),
         RMul(params.p_not_l_given_not_y, p_not_y(params)))

(***************************************************************************)
(* State.  One page is open: the Dash app ("server") or the generated      *)
(* static page ("client"); page = "call" is a direct call of               *)
(* stationary_distribution by any other caller.  The four slider variables *)
(* hold the current slider values (for "call": the arguments).             *)
(* distribution and derived are what the page displays; raised is the      *)
(* exception the last computation ended with ("none" if it returned,       *)
(* "pending" before a direct call has run).                                *)
(***************************************************************************)
VARIABLES page, slider_s, slider_ply, slider_py, slider_pnotl_noty,
          distribution, derived, raised

vars == <<page, slider_s, slider_ply, slider_py, slider_pnotl_noty,
          distribution, derived, raised>>

(***************************************************************************)
(* src/app.py: stationary_distribution.                                    *)
(***************************************************************************)
\* the powers the term list evaluates, as <<base, exponent>>
pow_calls(params) ==
    LET sv == params.s
        py == params.p_y
        ply == params.p_l_given_y
        pnotly == p_not_l_given_y(params)
        base == base_term(params)
    IN  { <<py, 4>>, <<pnotly, 7>>, <<py, 3>>, <<pnotly, 6>>,
          <<py, 2>>, <<pnotly, 5>>, <<sv, 2>>, <<base, 2>>,
          <<pnotly, 4>>, <<sv, 3>>, <<base, 3>>,
          <<pnotly, 3>>, <<sv, 4>>, <<base, 4>>,
          <<pnotly, 2>>, <<sv, 5>>,
          <<ply, 2>>, <<sv, 6>>,
          <<ply, 3>>, <<sv, 7>> }

\* variant: the sixth term raises base to the fifth power
terms_base5(params) ==
    LET sv == params.s
        py == params.p_y
        ply == params.p_l_given_y
        pnotly == p_not_l_given_y(params)
        base == base_term(params)
    IN  << RMul(RPow(py, 4), RPow(pnotly, 7)),
           RMul(RMul(RMul(RPow(py, 3), RPow(pnotly, 6)), sv), base),
           RMul(RMul(RMul(RPow(py, 2), RPow(pnotly, 5)), RPow(sv, 2)), RPow(base, 2)),
           RMul(RMul(RMul(py, RPow(pnotly, 4)), RPow(sv, 3)), RPow(base, 3)),
           RMul(RMul(RPow(pnotly, 3), RPow(sv, 4)), RPow(base, 4)),
           RMul(RMul(RMul(ply, RPow(pnotly, 2)), RPow(sv, 5)), RPow(base, 5)),
           RMul(RMul(RMul(RPow(ply, 2), pnotly), RPow(sv, 6)), RPow(base, 4)),
           RMul(RMul(RPow(ply, 3), RPow(sv, 7)), RPow(base, 4)) >>

\* variant: the powers of s run from 7 down to 0
terms_s_reversed(params) ==
    LET sv == params.s
        py == params.p_y
        ply == params.p_l_given_y
        pnotly == p_not_l_given_y(params)
        base == base_term(params)
    IN  << RMul(RMul(RPow(py, 4), RPow(pnotly, 7)), RPow(sv, 7)),
           RMul(RMul(RMul(RPow(py, 3), RPow(pnotly, 6)), RPow(sv, 6)), base),
           RMul(RMul(RMul(RPow(py, 2), RPow(pnotly, 5)), RPow(sv, 5)), RPow(base, 2)),
           RMul(RMul(RMul(py, RPow(pnotly, 4)), RPow(sv, 4)), RPow(base, 3)),
           RMul(RMul(RPow(pnotly, 3), RPow(sv, 3)), RPow(base, 4)),
           RMul(RMul(RMul(ply, RPow(pnotly, 2)), RPow(sv, 2)), RPow(base, 4)),
           RMul(RMul(RMul(RPow(ply, 2), pnotly), sv), RPow(base, 4)),
           RMul(RPow(ply, 3), RPow(base, 4)) >>

\* the eight unnormalised terms
terms(params) ==
    LET sv == params.s
        py == params.p_y
        ply == params.p_l_given_y
        pnotly == p_not_l_given_y(params)
        base == base_term(params)
    IN  << RMul(RPow(py, 4), RPow(pnotly, 7)),
           RMul(RMul(RMul(RPow(py, 3), RPow(pnotly, 6)), sv), base),
           RMul(RMul(RMul(RPow(py, 2), RPow(pnotly, 5)), RPow(sv, 2)), RPow(base, 2)),
           RMul(RMul(RMul(py, RPow(pnotly, 4)), RPow(sv, 3)), RPow(base, 3)),
           RMul(RMul(RPow(pnotly, 3), RPow(sv, 4)), RPow(base, 4)),
           RMul(RMul(RMul(ply, RPow(pnotly, 2)), RPow(sv, 5)), RPow(base, 4)),
           RMul(RMul(RMul(RPow(ply, 2), pnotly), RPow(sv, 6)), RPow(base, 4)),
           RMul(RMul(RPow(ply, 3), RPow(sv, 7)), RPow(base, 4)) >>

\* the result of a call: the exception it raised, or "none" and the value
Returned(v) == [exc |-> "none", value |-> v]
Raised(e) == [exc |-> e, value |-> <<>>]

\* variant: the fallback returns zeros
stationary_distribution_zero_fallback(params) ==
    IF \E c \in pow_calls(params) : PowOverflows(c[1], c[2])
    THEN Raised("OverflowError")
    ELSE LET t == terms(params)
             total == sum(t)
         IN  IF total = Zero
             THEN Returned([i \in 1..Len(t) |-> Zero])
             ELSE LET alpha == RInv(total)
                  IN  Returned([i \in 1..Len(t) |-> RMul(alpha, t[i])])

\* variant: the terms are returned without the factor alpha
stationary_distribution_unnormalised(params) ==
    IF \E c \in pow_calls(params) : PowOverflows(c[1], c[2])
    THEN Raised("OverflowError")
    ELSE LET t == terms(params)
             total == sum(t)
         IN  IF total = Zero
             THEN Returned([i \in 1..Len(t) |-> RInv(<<Len(t), 1>>)])
             ELSE Returned(t)

stationary_distribution(params) ==
    IF \E c \in pow_calls(params) : PowOverflows(c[1], c[2])
    THEN Raised("OverflowError")
    ELSE LET t == terms(params)
             total == sum(t)
         IN  IF total = Zero
             THEN Returned([i \in 1..Len(t) |-> RInv(<<Len(t), 1>>)])
             ELSE LET alpha == RInv(total)
                  IN  Returned([i \in 1..Len(t) |-> RMul(alpha, t[i])])

(***************************************************************************)
(* src/app.py: update_visualisation, the callback Dash runs with the four  *)
(* current slider values whenever one of them changes.  figure and         *)
(* distribution_list render the distribution, derived renders the three    *)
(* derived quantities; the model keeps the numbers they render.            *)
(***************************************************************************)
\* variant: the callback reads the s slider's previous value
update_visualisation_stale(sv, plyv, pyv, pnv) ==
    LET params == AutomatonParameters(slider_s, plyv, pyv, pnv)
        out == stationary_distribution(params)
    IN  [exc |-> out.exc,
         distribution |-> out.value,
         derived |-> <<p_not_l_given_y(params), p_not_y(params), base_term(params)>>]

update_visualisation(sv, plyv, pyv, pnv) ==
    LET params == AutomatonParameters(sv, plyv, pyv, pnv)
        out == stationary_distribution(params)
    IN  [exc |-> out.exc,
         distribution |-> out.value,
         derived |-> <<p_not_l_given_y(params), p_not_y(params), base_term(params)>>]

(***************************************************************************)
(* src/generate_static.py: the script of the generated page.  Math.pow     *)
(* never throws; within the slider ranges no power leaves the float range. *)
(***************************************************************************)
stationaryDistribution(sv, py, ply, pnotl_noty) ==
    LET pnotly == RSub(One, ply)
        pnoty == RSub(One, py)
        base == RAdd(RMul(ply, py), RMul(pnotl_noty, pnoty))
        t == << RMul(RPow(py, 4), RPow(pnotly, 7)),
                RMul(RMul(RMul(RPow(py, 3), RPow(pnotly, 6)), sv), base),
                RMul(RMul(RMul(RPow(py, 2), RPow(pnotly, 5)), RPow(sv, 2)), RPow(base, 2)),
                RMul(RMul(RMul(py, RPow(pnotly, 4)), RPow(sv, 3)), RPow(base, 3)),
                RMul(RMul(RPow(pnotly, 3), RPow(sv, 4)), RPow(base, 4)),
                RMul(RMul(RMul(ply, RPow(pnotly, 2)), RPow(sv, 5)), RPow(base, 4)),
                RMul(RMul(RMul(RPow(ply, 2), pnotly), RPow(sv, 6)), RPow(base, 4)),
                RMul(RMul(RPow(ply, 3), RPow(sv, 7)), RPow(base, 4)) >>
        total == sum(t)
    IN  IF total = Zero
        THEN [i \in 1..Len(t) |-> RInv(<<Len(t), 1>>)]
        ELSE LET alpha == RInv(total)
             IN  [i \in 1..Len(t) |-> RMul(alpha, t[i])]

\* the arguments are the values of s-slider, ply-slider, py-slider and
\* pnotl-slider, in the order the function reads them
\* variant: the call passes ply and py in the sliders' order
updateVisualization_swapped(s_el, ply_el, py_el, pnotl_el) ==
    LET sv == s_el
        ply == ply_el
        py == py_el
        pnotl_noty == pnotl_el
        pnotly == RSub(One, ply)
        pnoty == RSub(One, py)
        base == RAdd(RMul(ply, py), RMul(pnotl_noty, pnoty))
    IN  [distribution |-> stationaryDistribution(sv, ply, py, pnotl_noty),
         derived |-> <<pnotly, pnoty, base>>]

updateVisualization(s_el, ply_el, py_el, pnotl_el) ==
    LET sv == s_el
        ply == ply_el
        py == py_el
        pnotl_noty == pnotl_el
        pnotly == RSub(One, ply)
        pnoty == RSub(One, py)
        base == RAdd(RMul(ply, py), RMul(pnotl_noty, pnoty))
    IN  [distribution |-> stationaryDistribution(sv, py, ply, pnotl_noty),
         derived |-> <<pnotly, pnoty, base>>]

(***************************************************************************)
(* Slider ranges: s in [1, 25], the three probabilities in [0, 1]; the     *)
(* model draws s from SMin..MaxS and the probabilities from the grid k/D   *)
(* and the sliders' initial value.                                         *)
(***************************************************************************)
SValues == { <<n, 1>> : n \in SMin..MaxS }
\* value=0.5 of the three probability sliders
DefaultP == Rat(1, 2)
PValues == { Rat(k, D) : k \in 0..D } \cup {DefaultP}

SliderIds == {"slider-s", "slider-ply", "slider-py", "slider-pnotl-noty"}
SliderRange(id) == IF id = "slider-s" THEN SValues ELSE PValues

\* slider id moves to v, the other sliders stay
Moved(id, v) ==
    /\ v # (IF id = "slider-s" THEN slider_s
            ELSE IF id = "slider-ply" THEN slider_ply
            ELSE IF id = "slider-py" THEN slider_py
            ELSE slider_pnotl_noty)
    /\ slider_s' = (IF id = "slider-s" THEN v ELSE slider_s)
    /\ slider_ply' = (IF id = "slider-ply" THEN v ELSE slider_ply)
    /\ slider_py' = (IF id = "slider-py" THEN v ELSE slider_py)
    /\ slider_pnotl_noty' =
           (IF id = "slider-pnotl-noty" THEN v ELSE slider_pnotl_noty)

\* the page right after loading has run its update once (Dash's initial
\* callback, the script's "Initial render").  The probability sliders start
\* at value=0.5; the s slider's value=10 lies beyond MaxS, so it starts at
\* any value of its bounded range.
Init ==
    /\ page \in {"server", "client"}
    /\ slider_s \in SValues
    /\ slider_ply = DefaultP
    /\ slider_py = DefaultP
    /\ slider_pnotl_noty = DefaultP
    /\ raised = "none"
    /\ distribution =
           IF page = "server"
           THEN update_visualisation(slider_s, slider_ply, slider_py,
                                     slider_pnotl_noty).distribution
           ELSE updateVisualization(slider_s, slider_ply, slider_py,
                                    slider_pnotl_noty).distribution
    /\ derived =
           IF page = "server"
           THEN update_visualisation(slider_s, slider_ply, slider_py,
                                     slider_pnotl_noty).derived
           ELSE updateVisualization(slider_s, slider_ply, slider_py,
                                    slider_pnotl_noty).derived

\* a slider of the Dash app changes: the callback runs with the four current
\* values and replaces the outputs; an exception leaves them as they were
ServerSliderChange ==
    \E id \in SliderIds : \E v \in SliderRange(id) :
        /\ page = "server"
        /\ Moved(id, v)
        /\ raised' = update_visualisation(slider_s', slider_ply', slider_py',
                                          slider_pnotl_noty').exc
        /\ IF raised' = "none"
           THEN /\ distribution' =
                       update_visualisation(slider_s', slider_ply', slider_py',
                                            slider_pnotl_noty').distribution
                /\ derived' =
                       update_visualisation(slider_s', slider_ply', slider_py',
                                            slider_pnotl_noty').derived
           ELSE UNCHANGED <<distribution, derived>>
        /\ UNCHANGED page

\* an 'input' event of a slider of the static page: updateVisualization
\* reads the four sliders and replaces the outputs
ClientSliderInput ==
    \E id \in SliderIds : \E v \in SliderRange(id) :
        /\ page = "client"
        /\ Moved(id, v)
        /\ distribution' =
               updateVisualization(slider_s', slider_ply', slider_py',
                                   slider_pnotl_noty').distribution
        /\ derived' =
               updateVisualization(slider_s', slider_ply', slider_py',
                                   slider_pnotl_noty').derived
        /\ UNCHANGED <<page, raised>>

Next == ServerSliderChange \/ ClientSliderInput

Spec == Init /\ [][Next]_vars

(***************************************************************************)
(* A direct call of stationary_distribution with any numeric arguments,    *)
(* the slider ranges not enforced: negative and zero s, probabilities      *)
(* below 0 and above 1, and an s of large magnitude.                       *)
(***************************************************************************)
WideS == { <<n, 1>> : n \in (-SMin..SMin) \cup {HugeS, -HugeS} }
WideP == { Rat(k, D) : k \in -1..(D + 1) }

InitWide ==
    /\ page = "call"
    /\ slider_s \in WideS
    /\ slider_ply \in WideP
    /\ slider_py \in WideP
    /\ slider_pnotl_noty \in WideP
    /\ distribution = <<>>
    /\ derived = <<>>
    /\ raised = "pending"

Call ==
    LET out == stationary_distribution(
                   AutomatonParameters(slider_s, slider_ply, slider_py,
                                       slider_pnotl_noty))
    IN  /\ page = "call"
        /\ raised = "pending"
        /\ raised' = out.exc
        /\ distribution' = out.value
        /\ UNCHANGED <<page, slider_s, slider_ply, slider_py,
                       slider_pnotl_noty, derived>>

NextWide == Call

SpecWide == InitWide /\ [][NextWide]_vars

(***************************************************************************)
(* Properties.                                                             *)
(***************************************************************************)
\* the parameters the sliders currently stand at
Params ==
    AutomatonParameters(slider_s, slider_ply, slider_py, slider_pnotl_noty)

\* x / y, for y # 0
RDiv(x, y) == RMul(x, RInv(y))

\* x < y
RLt(x, y) == ~RLeq(y, x)

\* mass of states k..8
RECURSIVE TailMass(_, _)
TailMass(dist, k) ==
    IF k > Len(dist) THEN Zero ELSE RAdd(dist[k], TailMass(dist, k + 1))

Uniform == [i \in 1..8 |-> <<1, 8>>]

\* C1: for every valid parameter tuple the server-side result has exactly 8
\* values and they sum to 1, on the normalised path and on the uniform
\* fallback path alike.
C1_SumsToOne ==
    page = "server" =>
        /\ Len(distribution) = 8
        /\ sum(distribution) = One

C1_Witness ==
    /\ page = "server"
    /\ slider_py = One
    /\ slider_pnotl_noty = Zero
    /\ sum(terms(Params)) # Zero
    /\ distribution # Uniform
    /\ Cardinality({i \in 1..8 : distribution[i] # Zero}) = 8
    /\ sum(distribution) = One

\* C2: for every valid parameter tuple each of the 8 returned values is >= 0.
C2_NonNegative ==
    page = "server" => \A i \in 1..Len(distribution) : RLeq(Zero, distribution[i])

C2_Witness ==
    /\ page = "server"
    /\ slider_ply \notin {Zero, One}
    /\ slider_py = One
    /\ \A i \in 1..8 : RLt(Zero, distribution[i])

\* C3: when the sum of the eight unnormalised terms is exactly 0 the result
\* is the uniform vector [1/8]*8 (in particular for p_y = p_l_given_y =
\* p_not_l_given_not_y = 0 and any s); when the sum is not 0 the result is
\* each term divided by the sum.
C3_FallbackOrNormalised ==
    page = "server" =>
        LET t == terms(Params)
            total == sum(t)
        IN  /\ total = Zero => distribution = Uniform
            /\ total # Zero =>
                   /\ Len(distribution) = 8
                   /\ \A i \in 1..8 : distribution[i] = RDiv(t[i], total)
            /\ (slider_py = Zero /\ slider_ply = Zero /\ slider_pnotl_noty = Zero)
                   => distribution = Uniform

C3_Witness ==
    /\ page = "server"
    /\ slider_py = Zero
    /\ slider_ply = Zero
    /\ slider_pnotl_noty = Zero
    /\ sum(terms(Params)) = Zero
    /\ distribution = Uniform

\* the exponent table of the specification: row i is (a, b, c, d, e), the
\* exponents of p_y, 1 - p_l_given_y, p_l_given_y, s and B in term i
ExponentTable ==
    << <<4, 7, 0, 0, 0>>,
       <<3, 6, 0, 1, 1>>,
       <<2, 5, 0, 2, 2>>,
       <<1, 4, 0, 3, 3>>,
       <<0, 3, 0, 4, 4>>,
       <<0, 2, 1, 5, 4>>,
       <<0, 1, 2, 6, 4>>,
       <<0, 0, 3, 7, 4>> >>

TableB ==
    RAdd(RMul(slider_ply, slider_py),
         RMul(slider_pnotl_noty, RSub(One, slider_py)))

TableTerm(i) ==
    LET e == ExponentTable[i]
    IN  RMul(RMul(RMul(RMul(RPow(slider_py, e[1]),
                            RPow(RSub(One, slider_ply), e[2])),
                       RPow(slider_ply, e[3])),
                  RPow(slider_s, e[4])),
             RPow(TableB, e[5]))

TableTerms == << TableTerm(1), TableTerm(2), TableTerm(3), TableTerm(4),
                TableTerm(5), TableTerm(6), TableTerm(7), TableTerm(8) >>

TableTotal == sum(TableTerms)

\* C4: with a non-zero total, output i equals t_i / (t_1 + ... + t_8) where
\* t_i is the product of powers row i of the exponent table gives, with
\* B = p_l_given_y * p_y + p_not_l_given_not_y * (1 - p_y) and 0^0 = 1; for
\* the default probabilities (all 0.5) B is 0.5.
C4_ExponentTable ==
    page = "server" =>
        /\ TableTotal # Zero =>
               \A i \in 1..8 : distribution[i] = RDiv(TableTerm(i), TableTotal)
        /\ (slider_ply = <<1, 2>> /\ slider_py = <<1, 2>>
               /\ slider_pnotl_noty = <<1, 2>>)
               => (base_term(Params) = <<1, 2>> /\ derived[3] = <<1, 2>>)

C4_Witness ==
    /\ page = "server"
    /\ slider_ply = Zero
    /\ slider_py \notin {Zero, One}
    /\ TableTotal # Zero
    /\ distribution[5] # Zero
    /\ distribution[5] = RDiv(TableTerm(5), TableTotal)

\* C5: for identical slider values the static page's stationaryDistribution,
\* called as updateVisualization calls it, and the server's
\* stationary_distribution, called as update_visualisation calls it, return
\* the same 8-vector.
C5_ClientServerAgree ==
    /\ page = "client" =>
           distribution = update_visualisation(slider_s, slider_ply, slider_py,
                                               slider_pnotl_noty).distribution
    /\ page = "server" =>
           distribution = updateVisualization(slider_s, slider_ply, slider_py,
                                              slider_pnotl_noty).distribution

C5_Witness ==
    /\ page = "client"
    /\ slider_ply # slider_py
    /\ slider_py # Zero
    /\ slider_ply # Zero
    /\ distribution # Uniform
    /\ distribution = stationary_distribution(Params).value

\* C6: for s < s' in the slider range and the probabilities held fixed, the
\* mass of states k..8 under s' is at least the mass of states k..8 under s,
\* for every k in 1..8.
C6_MassShiftsUp ==
    page = "server" =>
        \A s2 \in SValues :
            RLt(slider_s, s2) =>
                LET d2 == stationary_distribution(
                              AutomatonParameters(s2, slider_ply, slider_py,
                                                  slider_pnotl_noty)).value
                IN  \A k \in 1..8 :
                        RLeq(TailMass(distribution, k), TailMass(d2, k))

C6_Witness ==
    /\ page = "server"
    /\ slider_s = <<SMin, 1>>
    /\ slider_py = One
    /\ slider_pnotl_noty = One
    /\ LET d2 == stationary_distribution(
                     AutomatonParameters(<<MaxS, 1>>, slider_ply, slider_py,
                                         slider_pnotl_noty)).value
       IN  \A k \in 2..8 : RLt(TailMass(distribution, k), TailMass(d2, k))

\* C7: after any sequence of slider changes, what update_visualisation
\* displays (the distribution and P(not L|Y), P(not Y), B) is what the
\* current four slider values alone give.
C7_NoHistory ==
    page = "server" =>
        /\ raised = "none"
        /\ distribution = stationary_distribution(Params).value
        /\ derived = <<RSub(One, slider_ply), RSub(One, slider_py), TableB>>

C7_Witness ==
    /\ page = "server"
    /\ slider_s = <<MaxS, 1>>
    /\ slider_ply = Zero
    /\ slider_py = One
    /\ slider_pnotl_noty = Zero
    /\ distribution = stationary_distribution(Params).value

\* C8: stationary_distribution is total over its numeric domain: for every
\* numeric argument tuple, also outside the slider ranges, it returns an
\* 8-element vector and raises nothing.
C8_Total ==
    (page = "call" /\ raised # "pending") =>
        /\ raised = "none"
        /\ Len(distribution) = 8

\* C9: for valid parameters the total is 0 exactly when all eight terms are
\* 0, which is exactly when p_y = 0 and p_not_l_given_not_y = 0, whatever
\* p_l_given_y and s; then the uniform fallback is returned, and otherwise
\* the total is strictly positive and the normalised result is returned.
C9_FallbackIff ==
    page = "server" =>
        LET t == terms(Params)
            total == sum(t)
            allZero == \A i \in 1..Len(t) : t[i] = Zero
            bothZero == slider_py = Zero /\ slider_pnotl_noty = Zero
        IN  /\ (total = Zero) <=> allZero
            /\ allZero <=> bothZero
            /\ bothZero => distribution = Uniform
            /\ ~bothZero =>
                   /\ RLt(Zero, total)
                   /\ \A i \in 1..8 : distribution[i] = RDiv(t[i], total)

C9_Witness ==
    /\ page = "server"
    /\ slider_py = Zero
    /\ slider_pnotl_noty = Zero
    /\ slider_ply = One
    /\ slider_s = <<MaxS, 1>>
    /\ distribution = Uniform

\* C10: for valid parameters with p_l_given_y = 1 and not both p_y = 0 and
\* p_not_l_given_not_y = 0, outputs 1..7 are 0 and output 8 is 1.
C10_AllMassOnLast ==
    (/\ page = "server"
     /\ slider_ply = One
     /\ ~(slider_py = Zero /\ slider_pnotl_noty = Zero)) =>
        /\ \A i \in 1..7 : distribution[i] = Zero
        /\ distribution[8] = One

C10_Witness ==
    /\ page = "server"
    /\ slider_ply = One
    /\ slider_py = Zero
    /\ slider_pnotl_noty = One
    /\ distribution[8] = One

====
